---- MODULE Spec2Model ----
(***************************************************************************)
(* One actor process of the goactors runtime: its inbox (ring buffer and   *)
(* procStatus state machine, src/remote/remote.proto lines 29-146) and its *)
(* host process (Start / Invoke / tryRestart / cleanup,                    *)
(* src/actor/context.go lines 167-388), driven by one sender of numbered   *)
(* user messages and one caller of engine.Poison / engine.Stop.            *)
(*                                                                         *)
(* Every goroutine that can execute code of the process is a thread: the   *)
(* spawner, which runs the first Start, and the workers the inbox hands to *)
(* the scheduler.  The Go call stack of a thread is kept as its program    *)
(* counter plus `tails`, the number of Start frames below the current      *)
(* frame that are waiting for their Invoke(mbuffer) call to return (the    *)
(* only frames that still have code to run when control returns to them).  *)
(*                                                                         *)
(* Spec is a process spawned by Engine.Spawn with the default options.     *)
(* SpecFamily is a process spawned by Context.SpawnChild of a parent, under *)
(* every supervision and restart policy, whose Receiver spawns one child:  *)
(* the parent is its SpawnChild call, the child its two ways of running    *)
(* cleanup.  SpecInbox is the inbox alone, as its tests drive it            *)
(* (src/unnamed/part_000 lines 31-110): a goroutine that owns the inbox and *)
(* calls Start and Stop, a sender, and a MockProcesser as consumer whose    *)
(* Invoke may call Stop.  SpecMemberSet is the MemberSet of the cluster     *)
(* (src/cluster/member_set.go) under Add, Remove and Except.               *)
(***************************************************************************)
EXTENDS Integers, Sequences, FiniteSets, TLC

\* ---------------------------------------------------------------- bounds
MaxMsgs == 4        \* user messages the sender issues
MaxPills == 1       \* poison pills issued through engine.Poison / engine.Stop
MaxPanics == 3      \* panics raised by Receive over a run
MaxInternal == 1    \* of which panics whose value is an *InternalError
MaxWorkers == 2     \* worker goroutines alive at the same time
MaxRestarts == 1    \* Opts.MaxRestarts of the process under study
FamilyMsgs == 1     \* user messages sent to a process that has a parent and a child
InboxMsgs == 3      \* envelopes sent to an inbox that is driven without a process
MaxList == 2        \* members passed to NewMemberSet or to Except in one call

\* ------------------------------------------------------ program constants
stopped == 0
starting == 1
idle == 2
running == 3
messageBatchSize == 4096

Spawner == 0
Workers == 1..MaxWorkers
Threads == {Spawner} \cup Workers
Sender == "sender"
Poisoner == "poisoner"
Clients == {Sender, Poisoner}

VARIABLES
    procStatus,   \* Inbox.procStatus
    rb,           \* Inbox.rb, the ring buffer, oldest envelope first
    inproc,       \* Inbox.proc has been set
    mbuffer,      \* process.mbuffer
    restarts,     \* process.restarts
    receiver,     \* process.context.receiver: the instance Producer returned (0: none)
    producerCalls,\* number of Producer() calls = id of the newest Receiver instance
    registered,   \* the Registry maps the pid to the process
    th,           \* per goroutine: pc and the locals of the frame it executes
    cl,           \* per client (Engine.Send / Engine.Poison caller): pc and envelope
    sent,         \* user messages the sender has handed to Engine.Send
    pushed,       \* user messages pushed to the ring buffer
    pills,        \* poison pills issued
    panics,       \* panics raised so far
    internals,    \* panics raised so far whose value is an *InternalError
    log,          \* every Receive call, in order: [g: instance, t: kind, n: number]
    wgDone,       \* per pill: number of wg.Done() calls
    pillAfter,    \* per pill: user messages pushed before it, -1 until pushed
    hardPills,    \* the pills issued by engine.Stop (graceful = false)
    restartedEvents,   \* ActorRestartedEvent broadcasts
    exceededEvents,    \* ActorMaxRestartsExceededEvent broadcasts
    owed,         \* what the last panic in Invoke left undelivered (see NoOwed)
    supervisionPolicy, \* Opts.SupervisionPolicy
    restartPolicy,     \* Opts.RestartPolicy
    parent,       \* the SpawnChild call that spawned the process: "none" for a
                  \* process without parentCtx, "set" before children.Set, "done"
    inParent,     \* parentCtx.children contains the pid
    children,     \* context.children: ids of the children of the process
    child,        \* the child the Receiver spawns: "never", "unborn", "running", "stopped"
    childInbox,   \* the poison pills in the child's inbox: the goroutines waiting on them
    released,     \* goroutines whose Poison(child) wait group has been signaled
    completed,    \* numbers of the user messages a Receive call returned from
    stoppedEvents,\* ActorStoppedEvent broadcasts
    mwCalls,      \* Receive calls made through the middleware chain
    slept,        \* the last sleep of tryRestart: [v: panic kind, d: delay,
                  \* n: restarts at the sleep]
    members,      \* MemberSet.members: map from member ID to member
    added,        \* IDs added to the MemberSet and not removed since
    removed,      \* IDs MemberSet.Remove has been called with
    exceptCall    \* the last MemberSet.Except call: its argument, the map it ran
                  \* on and the slice it returned

vars == <<procStatus, rb, inproc, mbuffer, restarts, receiver, producerCalls,
          registered, th, cl, sent, pushed, pills, panics, internals, log, wgDone,
          pillAfter, hardPills, restartedEvents, exceededEvents, owed,
          supervisionPolicy, restartPolicy, parent, inParent, children, child,
          childInbox, released, completed, stoppedEvents, mwCalls, slept,
          members, added, removed, exceptCall>>

\* ------------------------------------------------------------- envelopes
UserMsg(n) == [kind |-> "user", n |-> n, graceful |-> FALSE]
poisonPill(wg, graceful) == [kind |-> "pill", n |-> wg, graceful |-> graceful]
IsPill(m) == m.kind = "pill"

\* A frame with no locals: a goroutine that is not running, or between frames.
NoFrame == [pc |-> "none", msgs |-> <<>>, rem |-> <<>>, i |-> 0, nproc |-> 0,
            processed |-> 0, wg |-> 0, v |-> "none", recv |-> 0, tails |-> 0]

\* Bookkeeping of the last panic raised inside Invoke: the numbers of the user
\* messages of the failed batch that Receive had not been called with (up to a
\* hard-stop pill), the length of the log at the panic, the goroutine and the
\* depth of its stack, and the largest message number of the failed batch.
NoOwed == [msgs |-> <<>>, at |-> 0, by |-> -1, depth |-> 0, max |-> 0]

Min(a, b) == IF a < b THEN a ELSE b

\* ----------------------------------------------------------- ring buffer
Push(q, m) == Append(q, m)
PopN(q, n) == SubSeq(q, 1, Min(Len(q), n))
Rest(q, n) == SubSeq(q, Min(Len(q), n) + 1, Len(q))

\* ------------------------------------------------------------- MemberSet
\* make(map[string]*Member), line 10: the empty map.
EmptyMap == [id \in {} |-> id]

\* No Except call has been made.
NoExcept == [list |-> <<>>, of |-> EmptyMap, out |-> <<>>]

\* No MemberSet has been built.
NoMemberSet ==
    /\ members = EmptyMap
    /\ added = {}
    /\ removed = {}
    /\ exceptCall = NoExcept

ClusterVars == <<members, added, removed, exceptCall>>

\* ------------------------------------------------------------------ Init
\* newProcess and NewInbox: the process and its inbox after construction, the
\* Registry holding the process, its first Start about to run.
InitProcess ==
    /\ procStatus = stopped
    /\ rb = <<>>
    /\ inproc = FALSE
    /\ mbuffer = <<>>
    /\ restarts = 0
    /\ receiver = 0
    /\ producerCalls = 0
    /\ registered = TRUE
    /\ th = [t \in Threads |-> IF t = Spawner THEN [NoFrame EXCEPT !.pc = "start"]
                                               ELSE NoFrame]
    /\ cl = [c \in Clients |-> [pc |-> "idle", msg |-> UserMsg(0)]]
    /\ sent = 0
    /\ pushed = 0
    /\ pills = 0
    /\ panics = 0
    /\ internals = 0
    /\ log = <<>>
    /\ wgDone = [k \in 1..MaxPills |-> 0]
    /\ pillAfter = [k \in 1..MaxPills |-> -1]
    /\ hardPills = {}
    /\ restartedEvents = 0
    /\ exceededEvents = 0
    /\ owed = NoOwed
    /\ childInbox = <<>>
    /\ released = {}
    /\ completed = {}
    /\ stoppedEvents = 0
    /\ mwCalls = 0
    /\ slept = [v |-> "none", d |-> 0, n |-> 0]
    /\ NoMemberSet

\* A process spawned by Engine.Spawn with the default options: no parent, a
\* Receiver that spawns no child.
Init ==
    /\ InitProcess
    /\ supervisionPolicy = "RestartChild"
    /\ restartPolicy = "FixedDelay"
    /\ parent = "none"
    /\ inParent = FALSE
    /\ children = {}
    /\ child = "never"

\* ------------------------------------------------------- helper operators
\* What one Receive call can do: return, or panic with a value of either kind.
Outcomes ==
    {"ok"} \cup (IF panics < MaxPanics
                 THEN {"user"} \cup (IF internals < MaxInternal THEN {"internal"} ELSE {})
                 ELSE {})

\* The panic counters after a Receive call with outcome o.
Panicked(o) ==
    /\ panics' = panics + 1
    /\ internals' = IF o = "internal" THEN internals + 1 ELSE internals
PanicVars == <<panics, internals>>

\* One Receive call on instance g, appended to the log.
Receive(l, g, t, n) == Append(l, [g |-> g, t |-> t, n |-> n])

\* Control returns from the frame a goroutine executes (an Invoke, or a Start
\* whose callers are all unwinding recover blocks): to the newest Start frame
\* that waits for its Invoke(mbuffer), else to Inbox.run's loop (a worker), else
\* the goroutine ends (the spawner).
Return(f, t) ==
    IF f.tails > 0 THEN [NoFrame EXCEPT !.pc = "stail", !.tails = f.tails - 1]
    ELSE IF t = Spawner THEN NoFrame
    ELSE [NoFrame EXCEPT !.pc = "run"]

\* The buffer a recover block that counted nproc after handling would keep.
UnprocessedFromCurrent(msgs, nproc) == SubSeq(msgs, nproc, Len(msgs))

\* Invoke's recover block: the envelopes copied to mbuffer, msgs[nproc:]
\* (0-based), nproc being incremented before the envelope is handled.
Unprocessed(msgs, nproc) == SubSeq(msgs, nproc + 1, Len(msgs))

\* The remainder a graceful pill would drain if it took the whole batch again.
msgsToProcessAll(msgs, processed) == msgs

\* Invoke on a graceful pill: msgsToProcess := msgs[processed:] (0-based).
msgsToProcess(msgs, processed) == SubSeq(msgs, processed + 1, Len(msgs))

\* The frame of a fresh Invoke(batch) call.
InvokeFrame(f, batch) ==
    [f EXCEPT !.pc = "invoke", !.msgs = batch, !.rem = <<>>, !.i = 1,
              !.nproc = 0, !.processed = 0]

RECURSIVE UsersUpToStop(_)
\* The user message numbers of a sequence of envelopes, up to its first
\* non-graceful pill.
UsersUpToStop(q) ==
    IF q = <<>> THEN <<>>
    ELSE IF IsPill(Head(q))
         THEN (IF Head(q).graceful THEN UsersUpToStop(Tail(q)) ELSE <<>>)
         ELSE <<Head(q).n>> \o UsersUpToStop(Tail(q))

RECURSIVE MaxUser(_)
MaxUser(q) ==
    IF q = <<>> THEN 0
    ELSE IF IsPill(Head(q)) THEN MaxUser(Tail(q))
    ELSE IF Head(q).n > MaxUser(Tail(q)) THEN Head(q).n ELSE MaxUser(Tail(q))

\* The bookkeeping of a panic raised by goroutine t in a frame f of Invoke,
\* `left` being the envelopes of the batch after the panicking one.
OwedAfterPanic(t, f, left, l) ==
    [msgs |-> UsersUpToStop(left), at |-> Len(l), by |-> t, depth |-> f.tails,
     max |-> MaxUser(f.msgs)]

\* Opts.Middleware, the ordered list of receive wrappers of the process.
Middleware == <<"middleware">>

\* applyMiddleware(recv.Receive, Middleware...)(ctx), lines 219-224: the call
\* enters the chain when there is a middleware, else it is recv.Receive
\* itself.  `calls` counts the Receive calls that entered the chain.
applyMiddleware(calls) == IF Len(Middleware) > 0 THEN calls + 1 ELSE calls

\* Opts.RestartDelay, in milliseconds.
RestartDelay == 500

\* time.Sleep(p.Opts.RestartDelay), lines 308 and 330, in a tryRestart entered
\* with a panic value of kind v, the restart counter being n.
Sleep(v, n) == [v |-> v, d |-> RestartDelay, n |-> n]

\* A type assertion that took no panic value for an *InternalError.
NeverInternalError(v) == FALSE

\* tryRestart, line 306: v.(*InternalError).
IsInternalError(v) == v = "internal"

\* A Registry whose Remove leaves the entry in place.
RegistryKeep(r) == r

\* Registry.Remove(p.pid), line 348: the id maps to no process afterwards.
RegistryRemove(r) == FALSE

\* Context.GetPID(id), lines 114-120, with the id of the process: the PID of
\* the process Registry.getByID finds, or nil.
GetPID == IF registered THEN "pid" ELSE "nil"

\* The id of the child the Receiver spawns.
ChildId == "child"

\* The lowest worker goroutine that is not running.
FreeWorkers == {w \in Workers : th[w].pc = "none"}
NewWorker == CHOOSE w \in FreeWorkers : \A x \in FreeWorkers : w <= x

ProcVars == <<mbuffer, restarts, receiver, producerCalls, registered>>
InboxVars == <<procStatus, rb, inproc>>
ClientVars == <<cl, sent, pushed, pills, pillAfter, hardPills>>
EventVars == <<restartedEvents, exceededEvents>>
OptVars == <<supervisionPolicy, restartPolicy>>
ParentVars == <<parent, inParent>>
ChildVars == <<children, child, childInbox, released>>
AuditVars == <<completed, stoppedEvents, mwCalls, slept>>

\* ---------------------------------------------------------- process.Start
\* Start, lines 279-291: Producer(), context.receiver = recv, Initialized is
\* delivered to recv.  A panic runs the recover block (lines 283-287): Stopped
\* is delivered to context.receiver and tryRestart(v) is entered.
StartInit(t) ==
    /\ th[t].pc = "start"
    /\ producerCalls' = producerCalls + 1
    /\ receiver' = producerCalls + 1
    /\ \E o \in Outcomes :
         IF o = "ok"
         THEN /\ log' = Receive(log, receiver', "I", 0)
              /\ th' = [th EXCEPT ![t].pc = "started", ![t].recv = receiver']
              /\ UNCHANGED PanicVars
         ELSE /\ log' = Receive(Receive(log, receiver', "I", 0), receiver', "X", 0)
              /\ th' = [th EXCEPT ![t].pc = "try", ![t].v = o, ![t].recv = 0]
              /\ Panicked(o)
    /\ mwCalls' = applyMiddleware(mwCalls)
    /\ UNCHANGED <<InboxVars, mbuffer, restarts, registered, ClientVars, wgDone,
                   EventVars, owed>>
    /\ UNCHANGED <<ClusterVars, OptVars, ParentVars, ChildVars, completed, stoppedEvents, slept>>

\* Start, lines 293-299: Started is delivered to recv; then a non-empty mbuffer
\* is passed to Invoke, else the inbox is started.  A Receiver that spawns a
\* child does so on its first Started, through Context.SpawnChild (lines
\* 65-82): the child is registered and started, and recorded in children.
StartStarted(t) ==
    /\ th[t].pc = "started"
    /\ \E o \in Outcomes :
         IF o = "ok"
         THEN /\ log' = Receive(log, th[t].recv, "S", 0)
              /\ th' = [th EXCEPT ![t] =
                          IF Len(mbuffer) > 0
                          THEN InvokeFrame([@ EXCEPT !.tails = @ + 1, !.recv = 0], mbuffer)
                          ELSE [@ EXCEPT !.pc = "ib_cas", !.recv = 0]]
              /\ child' = IF child = "unborn" THEN "running" ELSE child
              /\ children' = IF child = "unborn" THEN children \cup {ChildId}
                                                  ELSE children
              /\ UNCHANGED PanicVars
         ELSE /\ log' = Receive(Receive(log, th[t].recv, "S", 0), receiver, "X", 0)
              /\ th' = [th EXCEPT ![t].pc = "try", ![t].v = o, ![t].recv = 0]
              /\ Panicked(o)
              /\ UNCHANGED <<child, children>>
    /\ mwCalls' = applyMiddleware(mwCalls)
    /\ UNCHANGED <<InboxVars, ProcVars, ClientVars, wgDone, EventVars, owed>>
    /\ UNCHANGED <<ClusterVars, OptVars, ParentVars, childInbox, released, completed, stoppedEvents, slept>>

\* Start, line 298, after Invoke(mbuffer) has returned: mbuffer = nil.
StartTail(t) ==
    /\ th[t].pc = "stail"
    /\ mbuffer' = <<>>
    /\ th' = [th EXCEPT ![t].pc = "ib_cas"]
    /\ UNCHANGED <<InboxVars, restarts, receiver, producerCalls, registered,
                   ClientVars, PanicVars, log, wgDone, EventVars, owed>>
    /\ UNCHANGED <<ClusterVars, OptVars, ParentVars, ChildVars, AuditVars>>

\* --------------------------------------------------------- process.Invoke
\* One iteration of Invoke's loop, lines 245-260, with invokeMsg (264-276) and,
\* on a panic, the recover block (233-243) up to the call of tryRestart.
InvokeStep(t) ==
    LET f == th[t]
        m == f.msgs[f.i]
        last == f.i = Len(f.msgs)
    IN
    /\ f.pc = "invoke"
    /\ IF IsPill(m)
       THEN /\ th' = [th EXCEPT ![t] =
                        IF m.graceful
                        THEN [f EXCEPT !.pc = "rem", !.nproc = f.i, !.wg = m.n,
                                       !.rem = msgsToProcess(f.msgs, f.processed)]
                        ELSE [f EXCEPT !.pc = "cleanup", !.nproc = f.i, !.wg = m.n,
                                       !.msgs = <<>>]]
            /\ UNCHANGED <<log, mbuffer, PanicVars, owed, completed, mwCalls>>
       ELSE \E o \in Outcomes :
              IF o = "ok"
              THEN /\ log' = Receive(log, receiver, "U", m.n)
                   /\ completed' = completed \cup {m.n}
                   /\ mwCalls' = applyMiddleware(mwCalls)
                   /\ th' = [th EXCEPT ![t] =
                               IF last THEN Return(f, t)
                               ELSE [f EXCEPT !.i = f.i + 1, !.nproc = f.i,
                                              !.processed = f.processed + 1]]
                   /\ UNCHANGED <<mbuffer, PanicVars, owed>>
              ELSE /\ log' = Receive(Receive(log, receiver, "U", m.n), receiver, "X", 0)
                   /\ mbuffer' = Unprocessed(f.msgs, f.i)
                   /\ Panicked(o)
                   /\ mwCalls' = applyMiddleware(mwCalls)
                   /\ UNCHANGED completed
                   /\ owed' = OwedAfterPanic(t, f, SubSeq(f.msgs, f.i + 1, Len(f.msgs)), log')
                   /\ th' = [th EXCEPT ![t] =
                               [NoFrame EXCEPT !.pc = "try", !.v = o, !.tails = f.tails]]
    /\ UNCHANGED <<InboxVars, restarts, receiver, producerCalls, registered,
                   ClientVars, wgDone, EventVars>>
    /\ UNCHANGED <<ClusterVars, OptVars, ParentVars, ChildVars, stoppedEvents, slept>>

\* One iteration of the loop over msgsToProcess, lines 251-253, ending with the
\* call of cleanup(pill.wg) (line 255); invokeMsg skips poison pills (265-267).
RemStep(t) ==
    LET f == th[t]
        m == Head(f.rem)
        after == IF Len(f.rem) = 1
                 THEN [f EXCEPT !.pc = "cleanup", !.rem = <<>>, !.msgs = <<>>]
                 ELSE [f EXCEPT !.rem = Tail(f.rem)]
    IN
    /\ f.pc = "rem"
    /\ IF IsPill(m)
       THEN /\ th' = [th EXCEPT ![t] = after]
            /\ UNCHANGED <<log, mbuffer, PanicVars, owed, completed, mwCalls>>
       ELSE \E o \in Outcomes :
              IF o = "ok"
              THEN /\ log' = Receive(log, receiver, "U", m.n)
                   /\ completed' = completed \cup {m.n}
                   /\ mwCalls' = applyMiddleware(mwCalls)
                   /\ th' = [th EXCEPT ![t] = after]
                   /\ UNCHANGED <<mbuffer, PanicVars, owed>>
              ELSE /\ log' = Receive(Receive(log, receiver, "U", m.n), receiver, "X", 0)
                   /\ mbuffer' = Unprocessed(f.msgs, f.nproc)
                   /\ Panicked(o)
                   /\ mwCalls' = applyMiddleware(mwCalls)
                   /\ UNCHANGED completed
                   /\ owed' = OwedAfterPanic(t, f, Tail(f.rem), log')
                   /\ th' = [th EXCEPT ![t] =
                               [NoFrame EXCEPT !.pc = "try", !.v = o, !.tails = f.tails]]
    /\ UNCHANGED <<InboxVars, restarts, receiver, producerCalls, registered,
                   ClientVars, wgDone, EventVars>>
    /\ UNCHANGED <<ClusterVars, OptVars, ParentVars, ChildVars, stoppedEvents, slept>>

\* ----------------------------------------------------- process.tryRestart
\* tryRestart, lines 305-320: an InternalError restarts at once; a panic at
\* restarts == MaxRestarts broadcasts ActorMaxRestartsExceededEvent and calls
\* cleanup(nil); any other panic goes on to line 322.
tryRestart(t) ==
    /\ th[t].pc = "try"
    /\ IF IsInternalError(th[t].v)
       THEN /\ th' = [th EXCEPT ![t].pc = "start", ![t].v = "none"]
            /\ slept' = Sleep("internal", restarts)
            /\ UNCHANGED <<exceededEvents, owed>>
       ELSE IF restarts = MaxRestarts
       THEN /\ exceededEvents' = exceededEvents + 1
            /\ th' = [th EXCEPT ![t].pc = "cleanup", ![t].v = "none", ![t].wg = 0]
            /\ owed' = NoOwed
            /\ UNCHANGED slept
       ELSE /\ th' = [th EXCEPT ![t].pc = "tryinc", ![t].v = "none"]
            /\ UNCHANGED <<exceededEvents, owed, slept>>
    /\ UNCHANGED <<InboxVars, ProcVars, ClientVars, PanicVars, log, wgDone,
                   restartedEvents>>
    /\ UNCHANGED <<ClusterVars, OptVars, ParentVars, ChildVars, completed, stoppedEvents, mwCalls>>

\* tryRestart, lines 322-331: restarts++, ActorRestartedEvent, sleep, Start().
tryRestartInc(t) ==
    /\ th[t].pc = "tryinc"
    /\ restarts' = restarts + 1
    /\ restartedEvents' = restartedEvents + 1
    /\ slept' = Sleep("user", restarts + 1)
    /\ th' = [th EXCEPT ![t].pc = "start"]
    /\ UNCHANGED <<InboxVars, mbuffer, receiver, producerCalls, registered,
                   ClientVars, PanicVars, log, wgDone, exceededEvents, owed>>
    /\ UNCHANGED <<ClusterVars, OptVars, ParentVars, ChildVars, completed, stoppedEvents, mwCalls>>

\* -------------------------------------------------------- process.cleanup
\* cleanup, lines 336-338: the process leaves the children of its parent.
LeaveParent == inParent' = IF parent # "none" THEN FALSE ELSE inParent

\* cleanup, lines 347-355: inbox.Stop(), Registry.Remove, Stopped to
\* context.receiver through the middleware, ActorStoppedEvent, wg.Done() when
\* wg is not nil; then cleanup returns.
Teardown(t) ==
    /\ procStatus' = stopped
    /\ registered' = RegistryRemove(registered)
    /\ log' = Receive(log, receiver, "X", 0)
    /\ mwCalls' = applyMiddleware(mwCalls)
    /\ stoppedEvents' = stoppedEvents + 1
    /\ wgDone' = IF th[t].wg # 0 THEN [wgDone EXCEPT ![th[t].wg] = @ + 1] ELSE wgDone
    /\ th' = [th EXCEPT ![t] = Return(th[t], t)]
    /\ UNCHANGED <<rb, inproc, mbuffer, restarts, receiver, producerCalls,
                   ClientVars, PanicVars, EventVars, owed>>

\* cleanup, lines 335-356, of a process whose children map is empty.
cleanup(t) ==
    /\ th[t].pc = "cleanup"
    /\ children = {}
    /\ LeaveParent
    /\ Teardown(t)
    /\ UNCHANGED <<ClusterVars, OptVars, parent, ChildVars, completed, slept>>

\* cleanup, lines 336-341, of a process with children: it leaves the children
\* of its parent and takes the list of its children, Context.Children().
cleanupChildren(t) ==
    /\ th[t].pc = "cleanup"
    /\ children # {}
    /\ LeaveParent
    /\ th' = [th EXCEPT ![t].pc = "poison"]
    /\ UNCHANGED <<InboxVars, ProcVars, ClientVars, PanicVars, log, wgDone,
                   EventVars, owed>>
    /\ UNCHANGED <<ClusterVars, OptVars, parent, ChildVars, AuditVars>>

\* cleanup, line 343, engine.Poison(pid): a graceful pill carrying a fresh wait
\* group is enqueued to the child when the Registry holds it, else the pill is
\* a dead letter; the caller goes on to Wait().
cleanupPoison(t) ==
    /\ th[t].pc = "poison"
    /\ childInbox' = IF child = "running" THEN Append(childInbox, t) ELSE childInbox
    /\ th' = [th EXCEPT ![t].pc = "wait"]
    /\ UNCHANGED <<InboxVars, ProcVars, ClientVars, PanicVars, log, wgDone,
                   EventVars, owed>>
    /\ UNCHANGED <<ClusterVars, OptVars, ParentVars, children, child, released, AuditVars>>

\* cleanup, line 343, Wait(): returns once the wait group has been signaled.
cleanupWait(t) ==
    /\ th[t].pc = "wait"
    /\ t \in released
    /\ released' = released \ {t}
    /\ th' = [th EXCEPT ![t].pc = "fin"]
    /\ UNCHANGED <<InboxVars, ProcVars, ClientVars, PanicVars, log, wgDone,
                   EventVars, owed>>
    /\ UNCHANGED <<ClusterVars, OptVars, ParentVars, children, child, childInbox, AuditVars>>

\* cleanup, lines 347-355, after the loop over the children.
cleanupStop(t) ==
    /\ th[t].pc = "fin"
    /\ Teardown(t)
    /\ UNCHANGED <<ClusterVars, OptVars, ParentVars, ChildVars, completed, slept>>

\* ------------------------------------------------------ parent and child
\* Context.SpawnChild of the parent, line 79, after engine.SpawnProc has
\* registered and started the process: c.children.Set(pid.ID, pid).
SpawnChildSet ==
    /\ parent = "set"
    /\ parent' = "done"
    /\ inParent' = TRUE
    /\ UNCHANGED <<InboxVars, ProcVars, th, ClientVars, PanicVars, log, wgDone,
                   EventVars, owed>>
    /\ UNCHANGED <<ClusterVars, OptVars, ChildVars, AuditVars>>

\* The child's cleanup(nil), lines 335-356, called by its tryRestart (line 318)
\* when its restarts are used up: it leaves context.children of the process
\* and the Registry, and signals no wait group.
childStop ==
    /\ child = "running"
    /\ child' = "stopped"
    /\ children' = children \ {ChildId}
    /\ UNCHANGED <<InboxVars, ProcVars, th, ClientVars, PanicVars, log, wgDone,
                   EventVars, owed>>
    /\ UNCHANGED <<ClusterVars, OptVars, ParentVars, childInbox, released, AuditVars>>

\* The child's Invoke reaches the first poison pill of its inbox (lines 248-256)
\* and runs cleanup(pill.wg): as childStop, and the wait group of that pill is
\* signaled (line 354).
childPoisoned ==
    /\ child = "running"
    /\ childInbox # <<>>
    /\ child' = "stopped"
    /\ children' = children \ {ChildId}
    /\ released' = released \cup {Head(childInbox)}
    /\ childInbox' = Tail(childInbox)
    /\ UNCHANGED <<InboxVars, ProcVars, th, ClientVars, PanicVars, log, wgDone,
                   EventVars, owed>>
    /\ UNCHANGED <<ClusterVars, OptVars, ParentVars, AuditVars>>

\* ------------------------------------------------------------------ Inbox
\* An Inbox.Start that takes the status to Starting whatever it was.
InboxStartAnyStatus(t) ==
    /\ th[t].pc = "ib_cas"
    /\ procStatus' = starting
    /\ th' = [th EXCEPT ![t].pc = "ib_store"]
    /\ UNCHANGED <<rb, inproc, ProcVars, ClientVars, PanicVars, log, wgDone,
                   EventVars, owed>>
    /\ UNCHANGED <<ClusterVars, OptVars, ParentVars, ChildVars, AuditVars>>

\* Inbox.Start, line 135: CAS(stopped -> starting); when it fails Start returns.
InboxStartCas(t) ==
    /\ th[t].pc = "ib_cas"
    /\ IF procStatus = stopped
       THEN /\ procStatus' = starting
            /\ th' = [th EXCEPT ![t].pc = "ib_store"]
       ELSE /\ th' = [th EXCEPT ![t] = Return(th[t], t)]
            /\ UNCHANGED procStatus
    /\ UNCHANGED <<rb, inproc, ProcVars, ClientVars, PanicVars, log, wgDone,
                   EventVars, owed>>
    /\ UNCHANGED <<ClusterVars, OptVars, ParentVars, ChildVars, AuditVars>>

\* Inbox.Start, lines 136-137: in.proc = proc; Swap(idle).
InboxStartStore(t) ==
    /\ th[t].pc = "ib_store"
    /\ inproc' = TRUE
    /\ procStatus' = idle
    /\ th' = [th EXCEPT ![t].pc = "ib_sched"]
    /\ UNCHANGED <<rb, ProcVars, ClientVars, PanicVars, log, wgDone, EventVars, owed>>
    /\ UNCHANGED <<ClusterVars, OptVars, ParentVars, ChildVars, AuditVars>>

\* Inbox.schedule, lines 102-106, by goroutine or client `who` whose record
\* becomes `next`: CAS(idle -> running) and, when it succeeds, a new worker
\* goroutine running Inbox.process.
schedule(thNext) ==
    IF procStatus = idle
    THEN /\ FreeWorkers # {}
         /\ procStatus' = running
         /\ th' = [thNext EXCEPT ![NewWorker] = [NoFrame EXCEPT !.pc = "run"]]
    ELSE /\ th' = thNext
         /\ UNCHANGED procStatus

\* Inbox.Start, line 138: schedule(), then Start returns.
InboxStartSched(t) ==
    /\ th[t].pc = "ib_sched"
    /\ schedule([th EXCEPT ![t] = Return(th[t], t)])
    /\ UNCHANGED <<rb, inproc, ProcVars, ClientVars, PanicVars, log, wgDone,
                   EventVars, owed>>
    /\ UNCHANGED <<ClusterVars, OptVars, ParentVars, ChildVars, AuditVars>>

\* A run loop that goes on to PopN without looking at the status.
RunLoadBlind(t) ==
    /\ th[t].pc = "run"
    /\ th' = [th EXCEPT ![t].pc = "pop"]
    /\ UNCHANGED <<InboxVars, ProcVars, ClientVars, PanicVars, log, wgDone,
                   EventVars, owed>>
    /\ UNCHANGED <<ClusterVars, OptVars, ParentVars, ChildVars, AuditVars>>

\* Inbox.run, line 117: the loop condition, LoadInt32(procStatus) != stopped.
RunLoad(t) ==
    /\ th[t].pc = "run"
    /\ th' = [th EXCEPT ![t].pc = IF procStatus # stopped THEN "pop" ELSE "exit"]
    /\ UNCHANGED <<InboxVars, ProcVars, ClientVars, PanicVars, log, wgDone,
                   EventVars, owed>>
    /\ UNCHANGED <<ClusterVars, OptVars, ParentVars, ChildVars, AuditVars>>

\* Inbox.run, lines 124-128: PopN(messageBatchSize); a non-empty batch is passed
\* to in.proc.Invoke, else run returns.
RunPop(t) ==
    /\ th[t].pc = "pop"
    /\ IF Len(PopN(rb, messageBatchSize)) > 0
       THEN /\ th' = [th EXCEPT ![t] = InvokeFrame(th[t], PopN(rb, messageBatchSize))]
            /\ rb' = Rest(rb, messageBatchSize)
       ELSE /\ th' = [th EXCEPT ![t].pc = "exit"]
            /\ UNCHANGED rb
    /\ UNCHANGED <<procStatus, inproc, ProcVars, ClientVars, PanicVars, log, wgDone,
                   EventVars, owed>>
    /\ UNCHANGED <<ClusterVars, OptVars, ParentVars, ChildVars, AuditVars>>

\* Inbox.process, line 111: CAS(running -> idle); the worker goroutine ends.
ProcessExit(t) ==
    /\ th[t].pc = "exit"
    /\ procStatus' = IF procStatus = running THEN idle ELSE procStatus
    /\ th' = [th EXCEPT ![t] = NoFrame]
    /\ UNCHANGED <<rb, inproc, ProcVars, ClientVars, PanicVars, log, wgDone,
                   EventVars, owed>>
    /\ UNCHANGED <<ClusterVars, OptVars, ParentVars, ChildVars, AuditVars>>

\* ---------------------------------------------------------------- clients
\* Engine.Send / Engine.Poison / Engine.Stop: the Registry lookup of the pid.
\* The sender issues user message sent+1; the poisoner a pill of either kind.
SendLookup(c) ==
    /\ cl[c].pc = "idle"
    /\ registered
    /\ IF c = Sender
       THEN /\ sent < MaxMsgs
            /\ sent' = sent + 1
            /\ cl' = [cl EXCEPT ![c] = [pc |-> "push", msg |-> UserMsg(sent + 1)]]
            /\ UNCHANGED <<pills, hardPills>>
       ELSE /\ pills < MaxPills
            /\ pills' = pills + 1
            /\ \E g \in BOOLEAN :
                 /\ cl' = [cl EXCEPT ![c] = [pc |-> "push",
                                             msg |-> poisonPill(pills + 1, g)]]
                 /\ hardPills' = IF g THEN hardPills ELSE hardPills \cup {pills + 1}
            /\ UNCHANGED sent
    /\ UNCHANGED <<InboxVars, ProcVars, th, pushed, pillAfter, PanicVars, log, wgDone,
                   EventVars, owed>>
    /\ UNCHANGED <<ClusterVars, OptVars, ParentVars, ChildVars, AuditVars>>

\* process.Send -> Inbox.Send, line 97: rb.Push(msg).
SendPush(c) ==
    /\ cl[c].pc = "push"
    /\ rb' = Push(rb, cl[c].msg)
    /\ cl' = [cl EXCEPT ![c].pc = "sched"]
    /\ IF IsPill(cl[c].msg)
       THEN /\ pillAfter' = [pillAfter EXCEPT ![cl[c].msg.n] = pushed]
            /\ UNCHANGED pushed
       ELSE /\ pushed' = pushed + 1
            /\ UNCHANGED pillAfter
    /\ UNCHANGED <<procStatus, inproc, ProcVars, th, sent, pills, hardPills, PanicVars,
                   log, wgDone, EventVars, owed>>
    /\ UNCHANGED <<ClusterVars, OptVars, ParentVars, ChildVars, AuditVars>>

\* Inbox.Send, line 98: schedule().
SendSchedule(c) ==
    /\ cl[c].pc = "sched"
    /\ schedule(th)
    /\ cl' = [cl EXCEPT ![c] = [pc |-> "idle", msg |-> UserMsg(0)]]
    /\ UNCHANGED <<rb, inproc, ProcVars, sent, pushed, pills, pillAfter, hardPills,
                   PanicVars, log, wgDone, EventVars, owed>>
    /\ UNCHANGED <<ClusterVars, OptVars, ParentVars, ChildVars, AuditVars>>

\* ------------------------------------------------------------------- Next
Next ==
    \/ \E t \in Threads : StartInit(t)
    \/ \E t \in Threads : StartStarted(t)
    \/ \E t \in Threads : StartTail(t)
    \/ \E t \in Threads : InvokeStep(t)
    \/ \E t \in Threads : RemStep(t)
    \/ \E t \in Threads : tryRestart(t)
    \/ \E t \in Threads : tryRestartInc(t)
    \/ \E t \in Threads : cleanup(t)
    \/ \E t \in Threads : InboxStartCas(t)
    \/ \E t \in Threads : InboxStartStore(t)
    \/ \E t \in Threads : InboxStartSched(t)
    \/ \E t \in Threads : RunLoad(t)
    \/ \E t \in Threads : RunPop(t)
    \/ \E t \in Threads : ProcessExit(t)
    \/ \E c \in Clients : SendLookup(c)
    \/ \E c \in Clients : SendPush(c)
    \/ \E c \in Clients : SendSchedule(c)

Spec == Init /\ [][Next]_vars

\* ----------------------------------------------------------------- family
SupervisionPolicies == {"RestartChild", "EscalateFailure", "StopChild"}
RestartPolicies == {"ImmediateRestart", "ExponentialBackoff", "FixedDelay"}

\* A process spawned by Context.SpawnChild of a parent, with any supervision
\* and restart policy, whose Receiver spawns one child on Started.  The parent
\* is between engine.SpawnProc and children.Set (lines 78-79).
InitFamily ==
    /\ InitProcess
    /\ supervisionPolicy \in SupervisionPolicies
    /\ restartPolicy \in RestartPolicies
    /\ parent = "set"
    /\ inParent = FALSE
    /\ children = {}
    /\ child = "unborn"

\* Engine.Send / Poison / Stop by clients that send few user messages.
FamilySendLookup(c) == SendLookup(c) /\ sent' <= FamilyMsgs

NextFamily ==
    \/ \E t \in Threads : StartInit(t)
    \/ \E t \in Threads : StartStarted(t)
    \/ \E t \in Threads : StartTail(t)
    \/ \E t \in Threads : InvokeStep(t)
    \/ \E t \in Threads : RemStep(t)
    \/ \E t \in Threads : tryRestart(t)
    \/ \E t \in Threads : tryRestartInc(t)
    \/ \E t \in Threads : cleanup(t)
    \/ \E t \in Threads : cleanupChildren(t)
    \/ \E t \in Threads : cleanupPoison(t)
    \/ \E t \in Threads : cleanupWait(t)
    \/ \E t \in Threads : cleanupStop(t)
    \/ \E t \in Threads : InboxStartCas(t)
    \/ \E t \in Threads : InboxStartStore(t)
    \/ \E t \in Threads : InboxStartSched(t)
    \/ \E t \in Threads : RunLoad(t)
    \/ \E t \in Threads : RunPop(t)
    \/ \E t \in Threads : ProcessExit(t)
    \/ \E c \in Clients : FamilySendLookup(c)
    \/ \E c \in Clients : SendPush(c)
    \/ \E c \in Clients : SendSchedule(c)
    \/ SpawnChildSet
    \/ childStop
    \/ childPoisoned

SpecFamily == InitFamily /\ [][NextFamily]_vars

\* ------------------------------------------------------------ inbox alone
\* NewInbox, lines 86-93: the status is Stopped, the buffer empty, no consumer
\* set, no call under way, and no process acting on the inbox.
NewInbox ==
    /\ procStatus = stopped
    /\ rb = <<>>
    /\ inproc = FALSE
    /\ mbuffer = <<>>
    /\ restarts = 0
    /\ receiver = 0
    /\ producerCalls = 0
    /\ registered = TRUE
    /\ th = [t \in Threads |-> NoFrame]
    /\ cl = [c \in Clients |-> [pc |-> "idle", msg |-> UserMsg(0)]]
    /\ sent = 0
    /\ pushed = 0
    /\ pills = 0
    /\ panics = 0
    /\ internals = 0
    /\ log = <<>>
    /\ wgDone = [k \in 1..MaxPills |-> 0]
    /\ pillAfter = [k \in 1..MaxPills |-> -1]
    /\ hardPills = {}
    /\ restartedEvents = 0
    /\ exceededEvents = 0
    /\ owed = NoOwed
    /\ supervisionPolicy = "RestartChild"
    /\ restartPolicy = "FixedDelay"
    /\ parent = "none"
    /\ inParent = FALSE
    /\ children = {}
    /\ child = "never"
    /\ childInbox = <<>>
    /\ released = {}
    /\ completed = {}
    /\ stoppedEvents = 0
    /\ mwCalls = 0
    /\ slept = [v |-> "none", d |-> 0, n |-> 0]

\* An inbox in the hands of the goroutine that created it.
InitInbox == NewInbox /\ NoMemberSet

\* The variables of the process, which an inbox driven alone leaves untouched.
HostVars == <<ProcVars, PanicVars, wgDone, EventVars, owed, OptVars, ParentVars,
              ChildVars, stoppedEvents, mwCalls, slept, ClusterVars>>

\* The owner of the inbox calls inbox.Start(mockProc), part_000 lines 41, 67
\* and 106 (process.Start calls it on every start, context.go line 301).
OwnerStart ==
    /\ th[Spawner].pc = "none"
    /\ th' = [th EXCEPT ![Spawner].pc = "ib_cas"]
    /\ UNCHANGED <<InboxVars, ClientVars, log, completed, HostVars>>

\* Inbox.Stop, lines 143-146: StoreInt32(stopped), whatever the status is.
Stop == procStatus' = stopped

\* The owner of the inbox calls inbox.Stop(), part_000 lines 50 and 79.
OwnerStop ==
    /\ th[Spawner].pc = "none"
    /\ Stop
    /\ UNCHANGED <<rb, inproc, th, ClientVars, log, completed, HostVars>>

RECURSIVE Processed(_, _)
\* MockProcesser's processFunc, part_000 lines 35-39: every envelope of the
\* batch is handed on, in order.
Processed(l, batch) ==
    IF batch = <<>> THEN l
    ELSE Processed(Receive(l, 0, "U", Head(batch).n), Tail(batch))

\* MockProcesser.Invoke, part_000 lines 92-94, called by a worker: processFunc
\* takes the envelopes (lines 35-39) and may call inbox.Stop() (lines 101-104);
\* then Invoke returns to Inbox.run.
MockInvoke(t) ==
    /\ th[t].pc = "invoke"
    /\ log' = Processed(log, th[t].msgs)
    /\ completed' = completed \cup {th[t].msgs[k].n : k \in 1..Len(th[t].msgs)}
    /\ \/ Stop
       \/ UNCHANGED procStatus
    /\ th' = [th EXCEPT ![t] = Return(th[t], t)]
    /\ UNCHANGED <<rb, inproc, ClientVars, HostVars>>

\* inbox.Send(Envelope{}), part_000 line 43, by the sender.
InboxSendLookup(c) == c = Sender /\ SendLookup(c) /\ sent' <= InboxMsgs

NextInbox ==
    \/ OwnerStart
    \/ OwnerStop
    \/ \E t \in Threads : InboxStartCas(t)
    \/ \E t \in Threads : InboxStartStore(t)
    \/ \E t \in Threads : InboxStartSched(t)
    \/ \E t \in Threads : RunLoad(t)
    \/ \E t \in Threads : RunPop(t)
    \/ \E t \in Threads : MockInvoke(t)
    \/ \E t \in Threads : ProcessExit(t)
    \/ \E c \in Clients : InboxSendLookup(c)
    \/ \E c \in Clients : SendPush(c)
    \/ \E c \in Clients : SendSchedule(c)

SpecInbox == InitInbox /\ [][NextInbox]_vars

\* -------------------------------------------------------------- MemberSet
MemberIDs == {"a", "b"}
MemberHosts == {"h1", "h2"}

\* The members: two members may carry the same ID.
Member == [ID : MemberIDs, Host : MemberHosts]

\* The slices of members a caller passes.
MemberLists == UNION {[1..n -> Member] : n \in 0..MaxList}

\* s.members[member.ID] = member, lines 12 and 37.
MapSet(m, member) ==
    [id \in DOMAIN m \cup {member.ID} |-> IF id = member.ID THEN member ELSE m[id]]

\* delete(s.members, member.ID), line 47.
MapDelete(m, id) == [x \in DOMAIN m \ {id} |-> m[x]]

RECURSIVE NewMemberSet(_)
\* NewMemberSet(members...), lines 9-18: the members are put in the map in
\* order, a later one replacing an earlier one of the same ID.
NewMemberSet(list) ==
    IF list = <<>> THEN EmptyMap
    ELSE MapSet(NewMemberSet(SubSeq(list, 1, Len(list) - 1)), list[Len(list)])

\* MemberSet.Len, lines 21-23.
MemberSetLen == Cardinality(DOMAIN members)

\* A Contains that looks for the member itself.
ContainsSame(member) == \E id \in DOMAIN members : members[id] = member

\* MemberSet.Contains, lines 41-44: the map has an entry under member.ID.
Contains(member) == member.ID \in DOMAIN members

\* The map m built from a slice in Except, lines 78-81: its keys.
ListIDs(list) == {list[k].ID : k \in 1..Len(list)}

\* The orders in which a range loop may visit the keys of a map.
Orders(S) == {q \in [1..Cardinality(S) -> S] : \A i, j \in DOMAIN q : q[i] = q[j] => i = j}

\* The loop of Except, lines 82-87, visiting the keys in the order given.
ExceptIn(m, order, list) ==
    LET kept == SelectSeq(order, LAMBDA id : id \notin ListIDs(list))
    IN  [k \in 1..Len(kept) |-> m[kept[k]]]

\* The variables of the actors, which the MemberSet leaves untouched.
ActorVars == <<InboxVars, th, ClientVars, log, completed, ProcVars, PanicVars,
               wgDone, EventVars, owed, OptVars, ParentVars, ChildVars,
               stoppedEvents, mwCalls, slept>>

\* A MemberSet built by NewMemberSet from any slice of members.
InitMemberSet ==
    /\ NewInbox
    /\ \E list \in MemberLists :
         /\ members = NewMemberSet(list)
         /\ added = ListIDs(list)
    /\ removed = {}
    /\ exceptCall = NoExcept

\* MemberSet.Add, lines 36-38.
Add(member) ==
    /\ members' = MapSet(members, member)
    /\ added' = added \cup {member.ID}
    /\ UNCHANGED <<removed, exceptCall, ActorVars>>

\* MemberSet.Remove, lines 46-48.
Remove(member) ==
    /\ members' = MapDelete(members, member.ID)
    /\ added' = added \ {member.ID}
    /\ removed' = removed \cup {member.ID}
    /\ UNCHANGED <<exceptCall, ActorVars>>

\* MemberSet.Except, lines 76-89: the range over s.members visits the entries
\* in an order the runtime chooses.
Except(list) ==
    /\ \E order \in Orders(DOMAIN members) :
         exceptCall' = [list |-> list, of |-> members,
                        out |-> ExceptIn(members, order, list)]
    /\ UNCHANGED <<members, added, removed, ActorVars>>

NextMemberSet ==
    \/ \E member \in Member : Add(member)
    \/ \E member \in Member : Remove(member)
    \/ \E list \in MemberLists : Except(list)

SpecMemberSet == InitMemberSet /\ [][NextMemberSet]_vars

\* ================================================================ claims
\* The numbers of the user messages Receive was called with, in order.
RECURSIVE UserNums(_)
UserNums(l) ==
    IF l = <<>> THEN <<>>
    ELSE IF Head(l).t = "U" THEN <<Head(l).n>> \o UserNums(Tail(l))
    ELSE UserNums(Tail(l))

\* The Receive calls on Receiver instance g, in order.
InstLog(g) == SelectSeq(log, LAMBDA e : e.g = g)

\* The entries a step appends to the log.
NewEntries == {log'[k] : k \in (Len(log) + 1)..Len(log')}

\* Goroutine t executes the body of Invoke.
InInvoke(t) == th[t].pc \in {"invoke", "rem"}

\* C1: at any moment at most one goroutine executes the process's Invoke.
C1_AtMostOneInvoke == Cardinality({t \in Threads : InInvoke(t)}) <= 1

\* C2: the user messages of the sender are observed by the receiver in the order
\* they were sent (message numbers never decrease along the log).
C2_SendOrder ==
    \A a, b \in 1..Len(UserNums(log)) : a < b => UserNums(log)[a] <= UserNums(log)[b]

\* C3: every Receiver instance observes Initialized first, Started second, user
\* messages only after both, and Stopped at most once and as the last message.
C3_Lifecycle ==
    \A g \in 1..producerCalls :
        LET l == InstLog(g) IN
        \A k \in 1..Len(l) :
            /\ (l[k].t = "I") <=> (k = 1)
            /\ (l[k].t = "S") => (k = 2)
            /\ (l[k].t = "U") => (k > 2 /\ l[2].t = "S")
            /\ (l[k].t = "X") => (k = Len(l))

\* C4: once the wait group of a poison pill has been signaled, no user message
\* is delivered to the receiver any more.
C4_NoDeliveryAfterWait ==
    [][(\E k \in 1..MaxPills : wgDone[k] > 0) => \A e \in NewEntries : e.t # "U"]_vars

\* C5 (graceful drain): when the wait group of a graceful pill has been signaled
\* and no Receive has panicked, the receiver has observed every user message
\* pushed before the pill, each once and in order, and then Stopped, once.
C5_GracefulDrain ==
    \A k \in 1..MaxPills :
        (wgDone[k] > 0 /\ k \notin hardPills /\ panics = 0) =>
            /\ Len(UserNums(log)) >= pillAfter[k]
            /\ \A j \in 1..Len(UserNums(log)) : UserNums(log)[j] = j
            /\ log[Len(log)].t = "X"
            /\ Cardinality({j \in 1..Len(log) : log[j].t = "X"}) = 1

\* A graceful pill pushed after two user messages has been handled without a panic.
C5_Witness ==
    \E k \in 1..MaxPills :
        wgDone[k] > 0 /\ k \notin hardPills /\ panics = 0 /\ pillAfter[k] >= 2

\* C6 (hard stop): once Invoke has reached a non-graceful pill and run cleanup,
\* no user message pushed after that pill is delivered.
C6_HardStop ==
    [][\A k \in hardPills :
          wgDone[k] > 0 => \A e \in NewEntries : e.t = "U" => e.n <= pillAfter[k]]_vars

\* C7: restarts and the number of ActorRestartedEvent broadcasts never exceed
\* MaxRestarts.
C7_RestartsBounded == restarts <= MaxRestarts /\ restartedEvents <= MaxRestarts

\* C8: ActorMaxRestartsExceededEvent is broadcast at most once, and after it
\* Start is not called, the inbox is not started and nothing but Stopped is
\* delivered.
C8_ExceededTerminal ==
    [][exceededEvents >= 1 =>
          /\ exceededEvents' = exceededEvents
          /\ producerCalls' = producerCalls
          /\ ~(procStatus = stopped /\ procStatus' = starting)
          /\ \A e \in NewEntries : e.t = "X"]_vars

\* The step is a panic of Receive inside goroutine t's Invoke.
InvokePanic(t) == InInvoke(t) /\ th'[t].pc = "try"
\* The envelope goroutine t's Invoke is about to handle.
Current(t) == IF th[t].pc = "invoke" THEN th[t].msgs[th[t].i] ELSE Head(th[t].rem)

\* C9 as stated: after a panic on the message at index i the replay buffer
\* starts with that message.
C9_ReplayStartsAtPanic ==
    [][\A t \in Threads :
          InvokePanic(t) => (mbuffer' # <<>> /\ mbuffer'[1] = Current(t))]_vars

\* C9 as amended: after a panic on the message at index i of Invoke's loop the
\* replay buffer is the batch after index i, so the panicking message is not
\* replayed; after a panic while draining behind a graceful pill it is the
\* batch after the pill.
C9_ReplayStartsAfterPanic ==
    [][\A t \in Threads :
          InvokePanic(t) =>
              mbuffer' = SubSeq(th[t].msgs,
                                (IF th[t].pc = "invoke" THEN th[t].i ELSE th[t].nproc) + 1,
                                Len(th[t].msgs))]_vars

\* A panic in Invoke's loop has left a non-empty replay buffer to a restart.
C9_Witness ==
    \E t \in Threads : th[t].pc = "try" /\ owed.by = t /\ owed.msgs # <<>>
                       /\ Len(mbuffer) = Len(owed.msgs)

\* The user messages delivered since the last panic inside Invoke.
SincePanic == UserNums(SubSeq(log, owed.at + 1, Len(log)))
IsOwed(n) == \E j \in 1..Len(owed.msgs) : owed.msgs[j] = n
IsPrefix(a, b) == Len(a) <= Len(b) /\ \A j \in 1..Len(a) : a[j] = b[j]
\* The goroutine that panicked has returned from the Invoke call that failed.
FailedInvokeReturned ==
    /\ owed.by >= 0
    /\ \/ th[owed.by].tails < owed.depth
       \/ owed.depth = 0 /\ th[owed.by].pc \in {"run", "pop", "exit", "none"}

\* C10 (guaranteed delivery on failure): after a panic inside Invoke that leads
\* to a restart, the user messages of the failed batch that had not been
\* delivered are delivered in their original order, all of them by the time the
\* failed Invoke returns and before any message of a later batch.
C10_ReplayDelivers ==
    /\ IsPrefix(SelectSeq(SincePanic, IsOwed), owed.msgs)
    /\ \A p \in 1..Len(SincePanic) :
          SincePanic[p] > owed.max =>
              \A j \in 1..Len(owed.msgs) : \E q \in 1..(p - 1) : SincePanic[q] = owed.msgs[j]
    /\ FailedInvokeReturned =>
          \A j \in 1..Len(owed.msgs) : \E q \in 1..Len(SincePanic) : SincePanic[q] = owed.msgs[j]

\* C11 (at-most-once delivery): Receive is never called with a user message
\* that an earlier Receive call returned from without panicking; in particular
\* the messages handled behind a graceful pill before a panic are not replayed.
C11_AtMostOnce ==
    [][\A e \in NewEntries : e.t = "U" => e.n \notin completed]_vars

\* C12: once a cleanup of the process has delivered Stopped and broadcast
\* ActorStoppedEvent, looking up the id of the process finds nothing, and goes
\* on finding nothing (no spawn registers the id again).
C12_UnregisteredAfterStop == stoppedEvents > 0 => GetPID = "nil"

\* A cleanup has completed and the process still handles a batch afterwards.
C12_Witness == stoppedEvents > 0 /\ \E t \in Threads : th[t].pc = "invoke"

\* A cleanup of the process has executed its first statement (lines 336-338).
CleanupBegun ==
    stoppedEvents > 0 \/ \E t \in Threads : th[t].pc \in {"poison", "wait", "fin"}

\* C13: once the SpawnChild call that spawned the process has returned, the
\* children map of the parent contains the process exactly as long as no
\* cleanup of the process has run.
C13_ChildrenMap == parent = "done" => (inParent <=> ~CleanupBegun)

\* A worker goroutine exists, or a schedule() call that can start one is pending.
WorkerScheduled ==
    \/ \E w \in Workers : th[w].pc # "none"
    \/ \E c \in Clients : cl[c].pc = "sched"
    \/ \E t \in Threads : th[t].pc = "ib_sched"

\* C14 (delivery liveness, as the state it excludes): while the inbox has never
\* been stopped, no envelope sits in the ring buffer with the status idle and
\* no worker scheduled, where it would stay without a further Send.
C14_NoStrandedEnvelope ==
    (stoppedEvents = 0 /\ procStatus = idle /\ rb # <<>>) => WorkerScheduled

\* The frame f is past a poison pill Invoke has reached and before the end of
\* the cleanup(pill.wg) call that follows it.
HandlingPill(f) == f.wg # 0 /\ f.pc \in {"rem", "cleanup", "poison", "wait", "fin"}

\* C15: a goroutine whose Invoke has reached a poison pill goes on to
\* cleanup(pill.wg) and leaves it by signaling that wait group, and no wait
\* group is signaled twice.
C15_PillSignaled ==
    [][/\ \A t \in Threads :
             HandlingPill(th[t]) =>
                 \/ HandlingPill(th'[t]) /\ th'[t].wg = th[t].wg
                 \/ wgDone'[th[t].wg] = wgDone[th[t].wg] + 1
       /\ \A k \in 1..MaxPills : wgDone'[k] <= 1]_vars

\* The delay RestartPolicy p dictates before restart number n is d; the
\* ceiling of ExponentialBackoff may be any delay from RestartDelay upwards.
PolicyDelay(p, n, d) ==
    CASE p = "ImmediateRestart" -> d = 0
      [] p = "FixedDelay" -> d = RestartDelay
      [] p = "ExponentialBackoff" ->
            \/ d = RestartDelay * 2^(n - 1)
            \/ RestartDelay <= d /\ d < RestartDelay * 2^(n - 1)

\* C16: the delay tryRestart sleeps after it has incremented restarts and
\* before it calls Start is the one RestartPolicy dictates for the new value
\* of the counter.
C16_RestartPolicyDelay ==
    [][restartedEvents' # restartedEvents =>
          PolicyDelay(restartPolicy, restarts', slept'.d)]_vars

\* C17: only a child under RestartChild restarts itself: under StopChild and
\* under EscalateFailure a panic of Receive is not followed by another Start,
\* restarts is not incremented and no ActorRestartedEvent is broadcast.
C17_SupervisionPolicy ==
    (parent # "none" /\ supervisionPolicy \in {"StopChild", "EscalateFailure"}) =>
        (producerCalls <= 1 /\ restarts = 0 /\ restartedEvents = 0)

\* C18: with a non-empty Middleware, every Receive call of the process,
\* lifecycle messages included, is made through the middleware chain.
C18_AllThroughMiddleware == Len(Middleware) > 0 => mwCalls = Len(log)

\* C19: a tryRestart entered with an *InternalError calls Start again, leaves
\* restarts unchanged and broadcasts neither ActorRestartedEvent nor
\* ActorMaxRestartsExceededEvent, whatever the value of restarts.
C19_InternalErrorRestart ==
    [][\A t \in Threads :
          (th[t].pc = "try" /\ th[t].v = "internal" /\ th'[t] # th[t]) =>
              /\ th'[t].pc = "start"
              /\ restarts' = restarts
              /\ restartedEvents' = restartedEvents
              /\ exceededEvents' = exceededEvents]_vars

\* An *InternalError has been recovered with restarts already at MaxRestarts,
\* and Start is about to run again.
C19_Witness ==
    /\ slept.v = "internal"
    /\ slept.n = MaxRestarts
    /\ restarts = MaxRestarts
    /\ exceededEvents = 0
    /\ \E t \in Threads : th[t].pc = "start"

\* The poison pill goroutine t waits on is in the inbox of the running child.
PillPending(t) ==
    child = "running" /\ \E j \in 1..Len(childInbox) : childInbox[j] = t

\* C20 (depth-first teardown): a cleanup stops the inbox, leaves the Registry,
\* delivers Stopped and signals its wait group only when no child of the
\* process is still running; and a cleanup that waits for a child is never left
\* waiting for a wait group that nothing will signal (the child has stopped
\* without signaling it), so that the cleanup can complete.
C20_DepthFirstTeardown ==
    [][/\ stoppedEvents' # stoppedEvents => child # "running"
       /\ \A t \in Threads :
             th'[t].pc = "wait" => (t \in released' \/ PillPending(t)')]_vars

\* C21: once Stop has stored Stopped, the status leaves Stopped only through the
\* CAS of an Inbox.Start (Stopped -> Starting): neither the exit CAS of a worker
\* nor the store of a Start that had passed its CAS before the Stop changes it.
C21_StoppedStays ==
    [][procStatus = stopped => procStatus' \in {stopped, starting}]_vars

\* The edges of the status state machine of the inbox.
StatusEdges ==
    {<<stopped, starting>>, <<starting, idle>>, <<idle, running>>,
     <<running, idle>>, <<running, stopped>>}

\* C22: the inbox status only ever changes along the edges Stopped->Starting,
\* Starting->Idle, Idle->Running, Running->Idle and Running->Stopped.
C22_StatusEdges ==
    [][procStatus' # procStatus => <<procStatus, procStatus'>> \in StatusEdges]_vars

\* Worker w is inside Inbox.run: scheduled, and not yet back in Inbox.process.
InRun(w) == th[w].pc \notin {"none", "exit"}

\* C23: whenever a goroutine is at the write of in.proc in Inbox.Start, the
\* status is Starting and no other worker goroutine is inside Inbox.run.
C23_ProcWrittenAlone ==
    \A t \in Threads :
        th[t].pc = "ib_store" =>
            /\ procStatus = starting
            /\ \A w \in Workers \ {t} : ~InRun(w)

\* The workers a step hands to the scheduler.
NewWorkers == {w \in Workers : th[w].pc = "none" /\ th'[w].pc = "run"}

\* C24: an Inbox.Start that finds the status Starting, Idle or Running returns
\* having changed neither the status nor the consumer reference and having
\* scheduled no worker; a Send changes the status only from Idle to Running,
\* and schedules a worker exactly when it does.
C24_StartSendFrame ==
    [][/\ \A t \in Threads :
            (th[t].pc = "ib_cas" /\ th'[t] # th[t] /\ procStatus # stopped) =>
                /\ procStatus' = procStatus
                /\ inproc' = inproc
                /\ th'[t].pc \notin {"ib_store", "ib_sched"}
                /\ NewWorkers = {}
       /\ \A c \in Clients :
            (cl[c].pc \in {"push", "sched"} /\ cl'[c] # cl[c]) =>
                IF procStatus' # procStatus
                THEN /\ cl[c].pc = "sched"
                     /\ procStatus = idle
                     /\ procStatus' = running
                     /\ Cardinality(NewWorkers) = 1
                ELSE NewWorkers = {}]_vars

\* A worker is back in run's loop after Receive panicked on a user message and
\* the restarted Start called inbox.Start on the inbox, which was never stopped.
C24_Witness ==
    /\ stoppedEvents = 0
    /\ restartedEvents = 1
    /\ procStatus = running
    /\ Len(log) > 3
    /\ log[Len(log)].t = "S"
    /\ log[Len(log) - 3].t = "U"
    /\ \E w \in Workers : th[w].pc = "run" /\ th[w].tails = 0

\* C25: while the status is Stopped, no worker passes the status check of run;
\* a worker at the top of the loop returns from run; and the ring buffer gives
\* up a batch only to a worker whose status check preceded the store, that is
\* the one further Invoke of that worker: what is left stays in the buffer.
C25_ExitAfterStop ==
    [][procStatus = stopped =>
          /\ \A w \in Workers :
                /\ th'[w].pc = "pop" => th[w].pc = "pop"
                /\ (th[w].pc = "run" /\ th'[w] # th[w]) => th'[w].pc = "exit"
                /\ (th[w].pc = "exit" /\ th'[w] # th[w]) =>
                       (th'[w].pc = "none" /\ rb' = rb)
          /\ Len(rb') < Len(rb) =>
                \E w \in Workers : th[w].pc = "pop" /\ th'[w].pc = "invoke"]_vars

\* The consumer has been handed a batch, the status is Stopped, and a worker
\* has seen it and is leaving run although the ring buffer is not empty.
C25_Witness ==
    /\ procStatus = stopped
    /\ rb # <<>>
    /\ Len(log) > 0
    /\ \E w \in Workers : th[w].pc = "exit"

\* C26: the MemberSet is a set keyed by member ID: Contains(m) holds exactly
\* when m's ID has been added and not removed since, Len is the number of such
\* IDs, and Except(list) returned, each once, exactly the members of the set
\* whose ID does not occur in list.
C26_MemberSetById ==
    /\ \A member \in Member : Contains(member) <=> member.ID \in added
    /\ MemberSetLen = Cardinality(added)
    /\ LET c == exceptCall IN
         /\ {c.out[k] : k \in 1..Len(c.out)} =
                {c.of[id] : id \in DOMAIN c.of \ ListIDs(c.list)}
         /\ \A i, j \in 1..Len(c.out) : c.out[i] = c.out[j] => i = j

\* An ID that was removed is in the set again under another member than the one
\* asked about, and Except has left out a member of the set because of its ID,
\* the slice holding another member of that ID, and has returned one.
C26_Witness ==
    /\ \E member \in Member :
         /\ member.ID \in added \cap removed
         /\ members[member.ID] # member
    /\ Len(exceptCall.out) > 0
    /\ \E k \in 1..Len(exceptCall.list) :
         /\ exceptCall.list[k].ID \in DOMAIN exceptCall.of
         /\ exceptCall.of[exceptCall.list[k].ID] # exceptCall.list[k]
====
